---------------------------- MODULE Spec2Model ----------------------------
(***************************************************************************)
(* Result aggregation of the fuzzy-sku end-to-end suite.                   *)
(*                                                                         *)
(*   tests/fuzzy-sku-search.spec.ts   the workers: each test builds its    *)
(*       TestResult and saves it with saveTestResult into the shared JSON  *)
(*       file (read whole, upsert, write a temp file, rename over).        *)
(*   tests/reporters/custom-reporter.ts   onEnd: after every worker has    *)
(*       finished, merges the shared file, the previous CSV export and the *)
(*       catalog into one row per test, counts, decides the suite status.  *)
(*                                                                         *)
(* Spec         workers and reporter on a file system that does not fail   *)
(* SpecFault    the same with read / write / rename errors                 *)
(* SpecSummary  the summary arithmetic over (passCount, totalTests)        *)
(* SpecRank     the executor's result record over (position, found, total) *)
(***************************************************************************)
EXTENDS Integers, Sequences, FiniteSets, TLC

(***************************************************************************)
(* Bounds of the model and constants of the program.                       *)
(***************************************************************************)
\* number of catalog rows (testCases.length) in the store/merge model
MaxCatalog == 2
\* largest totalTests the summary arithmetic is explored for
MaxTotal == 209
\* largest row position of the expected item the rank derivation is explored for
MaxPosition == 60
\* number of consecutive runs of the pipeline explored
MaxRuns == 2
\* saveTestResult: const maxRetries = 5
maxRetries == 5
\* custom-reporter.ts: const SUCCESS_THRESHOLD = 90
SUCCESS_THRESHOLD == 90
\* the six expected-output columns of a TestCase (hinban .. sizename)
NumFields == 6
\* playwright.config.ts: retries: process.env.CI ? 2 : 0 -- a local run, no retries
TestRetries == 0

Workers == {"w1", "w2"}

(***************************************************************************)
(* JavaScript values: number | undefined | NaN, and CSV cell text.         *)
(***************************************************************************)
Num(n) == [t |-> "num", v |-> n]
Undefined == [t |-> "undefined", v |-> 0]
NaN == [t |-> "NaN", v |-> 0]

Digits == <<"0", "1", "2", "3", "4", "5", "6", "7", "8", "9">>

DigitValue(c) == (CHOOSE d \in 1..10 : Digits[d] = c) - 1

IsDigit(c) == \E d \in 1..10 : Digits[d] = c

\* String(n) for a non-negative integer: its decimal digits, as csv-stringify writes it
RECURSIVE NumberToText(_)
NumberToText(n) ==
    IF n < 10 THEN <<Digits[n + 1]>>
    ELSE NumberToText(n \div 10) \o <<Digits[(n % 10) + 1]>>

\* the leading run of decimal digits of a cell
RECURSIVE LeadingDigits(_)
LeadingDigits(s) ==
    IF s = <<>> \/ ~IsDigit(Head(s)) THEN <<>>
    ELSE <<Head(s)>> \o LeadingDigits(Tail(s))

RECURSIVE DigitsToNat(_, _)
DigitsToNat(s, acc) ==
    IF s = <<>> THEN acc ELSE DigitsToNat(Tail(s), acc * 10 + DigitValue(Head(s)))

\* parseInt(text): the number its leading digits spell, NaN when there are none
ParseInt(s) ==
    LET ds == LeadingDigits(s)
    IN  IF ds = <<>> THEN NaN ELSE Num(DigitsToNat(ds, 0))

\* how csv-stringify writes number | undefined into a cell: '' + value for a number
\* (also for NaN), nothing for undefined
CellOf(x) ==
    IF x.t = "num" THEN NumberToText(x.v)
    ELSE IF x.t = "NaN" THEN <<"N", "a", "N">>
    ELSE <<>>


(***************************************************************************)
(* The catalog: testCases, one TestCase per CSV row, index = row order.    *)
(***************************************************************************)
Queries == <<"q0", "q1", "q2", "q3">>

TestCase(idx) == [aitehinmei |-> Queries[idx + 1]]

\* the 0-based indices of a catalog of n rows
Indices(n) == 0..(n - 1)

(***************************************************************************)
(* The test body's derivation of its TestResult (fuzzy-sku-search.spec.ts) *)
(***************************************************************************)
\* resultPosition is -1 when no row holds the expected hinban, else the 1-based row
NotFoundPosition == 0 - 1

RankRangeBug(resultPosition) ==
    IF resultPosition > 0
    THEN IF resultPosition < 5 THEN <<"Top 1-5">>
         ELSE IF resultPosition <= 10 THEN <<"Top 6-10">>
         ELSE IF resultPosition <= 20 THEN <<"Top 11-20">>
         ELSE IF resultPosition <= 30 THEN <<"Top 21-30">>
         ELSE IF resultPosition <= 50 THEN <<"Top 31-50">>
         ELSE <<"Below Top 50 (Position ">> \o NumberToText(resultPosition) \o <<")">>
    ELSE <<"Not Found">>

\* let rankRange = 'Not Found'; if (resultPosition > 0) { ... }
RankRange(resultPosition) ==
    IF resultPosition > 0
    THEN IF resultPosition <= 5 THEN <<"Top 1-5">>
         ELSE IF resultPosition <= 10 THEN <<"Top 6-10">>
         ELSE IF resultPosition <= 20 THEN <<"Top 11-20">>
         ELSE IF resultPosition <= 30 THEN <<"Top 21-30">>
         ELSE IF resultPosition <= 50 THEN <<"Top 31-50">>
         ELSE <<"Below Top 50 (Position ">> \o NumberToText(resultPosition) \o <<")">>
    ELSE <<"Not Found">>

\* testResults[index].result_position = resultPosition > 0 ? resultPosition : undefined
ResultPosition(resultPosition) ==
    IF resultPosition > 0 THEN Num(resultPosition) ELSE Undefined

\* `Missing ${missingFields.length}/${totalCount} fields: ...` (the field names left out)
MissingMessage(foundCount, totalCount) ==
    <<"Missing ">> \o NumberToText(totalCount - foundCount) \o <<"/">>
        \o NumberToText(totalCount) \o <<" fields">>

\* testResults[index] as the test leaves it when it calls saveTestResult
BuildResult(idx, resultPosition, foundCount, totalCount) ==
    [aitehinmei        |-> TestCase(idx).aitehinmei,
     status            |-> IF foundCount = totalCount THEN "PASS" ELSE "FAIL",
     error_message     |-> IF foundCount = totalCount THEN <<>>
                           ELSE MissingMessage(foundCount, totalCount),
     found_count       |-> Num(foundCount),
     total_count       |-> Num(totalCount),
     screenshot_path   |-> <<>>,
     result_position   |-> ResultPosition(resultPosition),
     result_rank_range |-> RankRange(resultPosition)]

\* { ...result, _testIndex: index }
WithIndex(result, index) ==
    [f \in (DOMAIN result) \cup {"_testIndex"} |->
        IF f = "_testIndex" THEN index ELSE result[f]]

(***************************************************************************)
(* Step screenshots (test-screenshots-steps/): files named                 *)
(* `${testId}_step${NN}_${stepName}.png`.  A file is modelled by the test  *)
(* id and the step in its name and, as its content, which execution of the *)
(* test wrote it.                                                          *)
(***************************************************************************)
\* String(n).padStart(width, '0')
RECURSIVE PadStart(_, _)
PadStart(text, width) ==
    IF Len(text) >= width THEN text ELSE PadStart(<<"0">> \o text, width)

\* `TC${String(index + 1).padStart(3, '0')}`
TestId(testNumber) == <<"T", "C">> \o PadStart(NumberToText(testNumber), 3)

\* the name of a screenshot file
FileName(file) == file.id \o <<"_", "s">> \o PadStart(NumberToText(file.step), 2)

\* file.startsWith(testId)
StartsWith(name, prefix) ==
    /\ Len(name) >= Len(prefix)
    /\ \A k \in 1..Len(prefix) : name[k] = prefix[k]

\* readdirSync(dir).filter((file) => file.startsWith(testId))
FilesOf(dir, testNumber) == {f \in dir : StartsWith(FileName(f), TestId(testNumber))}

\* "Delete old screenshots for this test case before rerun", then the captures of
\* this execution: steps 1..steps, each writing (or overwriting) its file
Captured(dir, testNumber, steps, execution) ==
    LET kept == dir \ FilesOf(dir, testNumber)
        new == {[id |-> TestId(testNumber), step |-> k, exec |-> execution] : k \in 1..steps}
    IN  {f \in kept : \A g \in new : FileName(f) # FileName(g)} \cup new

\* the order of characters in file names
CharRank(c) ==
    IF IsDigit(c) THEN DigitValue(c)
    ELSE IF c = "C" THEN 10 ELSE IF c = "T" THEN 11 ELSE IF c = "_" THEN 12 ELSE 13

\* a < b as strings
RECURSIVE NameLess(_, _)
NameLess(a, b) ==
    IF b = <<>> THEN FALSE
    ELSE IF a = <<>> THEN TRUE
    ELSE IF Head(a) # Head(b) THEN CharRank(Head(a)) < CharRank(Head(b))
    ELSE NameLess(Tail(a), Tail(b))

\* testScreenshots.sort(): the files in the order of their names
RECURSIVE SortFiles(_)
SortFiles(files) ==
    IF files = {} THEN <<>>
    ELSE LET first == CHOOSE f \in files :
                          \A g \in files \ {f} : NameLess(FileName(f), FileName(g))
         IN  <<first>> \o SortFiles(files \ {first})

\* stepScreenshots.join('|') of `screenshots/${file}`
RECURSIVE JoinRefs(_)
JoinRefs(files) ==
    IF files = <<>> THEN <<>>
    ELSE IF Len(files) = 1 THEN <<"screenshots/">> \o FileName(files[1])
    ELSE <<"screenshots/">> \o FileName(files[1]) \o <<"|">> \o JoinRefs(Tail(files))

(***************************************************************************)
(* The shared results file (.test-results-shared.json).                    *)
(*   kind "array"    JSON text of an array of records (recs)               *)
(*   kind "nonarray" JSON text of something that is not an array           *)
(*   kind "corrupt"  text JSON.parse throws on                             *)
(*   kind "blank"    empty or white-space text                             *)
(*   kind "missing"  no file                                               *)
(***************************************************************************)
ArrayFile(recs) == [kind |-> "array", recs |-> recs]
OtherFile(kind) == [kind |-> kind, recs |-> <<>>]

\* a search that never finds the index
FindIndexNever(recs, index) == 0

\* allResults.findIndex((r) => r._testIndex === index), 1-based, 0 when there is none
FindIndex(recs, index) ==
    IF \E k \in 1..Len(recs) : recs[k]._testIndex = index
    THEN CHOOSE k \in 1..Len(recs) :
            /\ recs[k]._testIndex = index
            /\ \A j \in 1..(k - 1) : recs[j]._testIndex # index
    ELSE 0

\* an update that always pushes
UpsertPush(recs, rec) == Append(recs, rec)

\* "Update or add result": replace the entry of the index in place, else push
Upsert(recs, rec) ==
    LET existingIndex == FindIndex(recs, rec._testIndex)
    IN  IF existingIndex > 0
        THEN [recs EXCEPT ![existingIndex] = rec]
        ELSE Append(recs, rec)

(***************************************************************************)
(* The previous export (fuzzy-sku-test-results.csv), as csv-parse returns  *)
(* it: one object of text cells per row.  A numeric cell is a sequence of  *)
(* characters, a text cell a sequence of text pieces, status a string.     *)
(***************************************************************************)
CsvRow(test_number, status, aitehinmei, found, total, position, rank, message) ==
    [test_number       |-> test_number,
     status            |-> status,
     aitehinmei        |-> aitehinmei,
     found_count       |-> found,
     total_count       |-> total,
     result_position   |-> position,
     result_rank_range |-> rank,
     error_message     |-> message,
     screenshot_path   |-> <<>>]

NoCsv == [exists |-> FALSE, readable |-> FALSE, rows |-> <<>>]
CsvFile(rows) == [exists |-> TRUE, readable |-> TRUE, rows |-> rows]
\* a file that is there and that readFileSync or csv-parse throws on
UnreadableCsv == [exists |-> TRUE, readable |-> FALSE, rows |-> <<>>]

(***************************************************************************)
(* State.                                                                  *)
(***************************************************************************)
VARIABLES
    numTests,      \* testCases.length, the size of the catalog
    sharedFile,    \* content at sharedResultsPath
    resultsCsv,    \* content at resultsPath: the previous export, then this run's
    pc,            \* per worker: "idle", or where it is in saveTestResult
    task,          \* per worker: the (index, result) arguments of its saveTestResult
    attempt,       \* per worker: the loop variable of saveTestResult
    allResults,    \* per worker: the array saveTestResult read and updated
    tempFile,      \* per worker: what the current attempt wrote at tempPath
    exec,          \* per index: executions started, and whether the last failed
    call,          \* per index: its last saveTestResult: "none", "active", "returned", "raised"
    submitted,     \* per index: the record handed to its last saveTestResult
    commits,       \* per index: renames its saveTestResult calls completed in this run
    parseErrors,   \* per index: what its last saveTestResult did on JSON.parse errors:
                   \* "none" met, "continue" (retried), or "reset" (started from [])
    phase,         \* "running" until onEnd has run, then "reported" or "crashed"
    mergeInput,    \* what onEnd loaded: the kind of file, the store records, the previous rows
    testResults,   \* the merged rows of the last onEnd
    summary,       \* the reporter's counts, pass rate and suite status
    document,      \* custom-report-dist/index.html as the last onEnd of this run wrote it
    screenshotDir, \* the files in test-screenshots-steps/
    run,           \* which run of the pipeline this is, counted from the first modelled
    configThreshold, \* TestConfig.SUCCESS_THRESHOLD, the documented setting
    sumIn,         \* SpecSummary: the counts handed to the summary
    rankIn,        \* SpecRank: what the test found
    rankOut        \* SpecRank: the records it stored

vars == <<numTests, sharedFile, resultsCsv, pc, task, attempt, allResults, tempFile,
          exec, call, submitted, commits, parseErrors, phase, mergeInput,
          testResults, summary, document, screenshotDir, run, configThreshold,
          sumIn, rankIn, rankOut>>

workerVars == <<pc, task, attempt, allResults, tempFile>>
historyVars == <<exec, call, submitted, commits, parseErrors>>
reportVars == <<phase, mergeInput, testResults, summary, resultsCsv, document>>
otherSpecVars == <<sumIn, rankIn, rankOut, run, configThreshold>>

NoTask == [index |-> 0 - 1, result |-> <<>>]

NoSummary ==
    [totalTests |-> 0, passCount |-> 0, failCount |-> 0, notRunCount |-> 0,
     passRate |-> 0, requiredPasses |-> 0, suiteStatus |-> "none"]

NoMergeInput == [kind |-> "none", export |-> "none", store |-> <<>>, previous |-> <<>>]

NoDocument ==
    [written |-> FALSE, run |-> 0, rows |-> <<>>, matchResult |-> <<>>,
     suiteStatus |-> "none"]

(***************************************************************************)
(* Initial contents.                                                       *)
(***************************************************************************)
\* a record as an earlier run left it
StaleRecord(idx, resultPosition, foundCount, totalCount) ==
    WithIndex([BuildResult(0, resultPosition, foundCount, totalCount)
                  EXCEPT !.aitehinmei = "stale"], idx)

OutOfRange == MaxCatalog + 5

\* The shared file when the workers start.  The runner has loaded the test module
\* (lines 65-77): the file was created as [] since the last reporter removed it, or
\* what is there is text JSON.parse throws on (a write cut short).
RunFiles == { ArrayFile(<<>>), OtherFile("corrupt") }

\* Any content the reporter may find: besides the above, no file, JSON that is no
\* array, and arrays with leftover, duplicate and out-of-range entries.
MergeFiles ==
    RunFiles \cup
    { OtherFile("missing"),
      OtherFile("blank"),
      OtherFile("nonarray"),
      ArrayFile(<<StaleRecord(0, 1, 6, 6)>>),
      ArrayFile(<<WithIndex(BuildResult(1, NotFoundPosition, 0, 6), 1),
                  WithIndex(BuildResult(0, 51, 2, 2), 0)>>),
      ArrayFile(<<StaleRecord(1, NotFoundPosition, 5, 6), StaleRecord(OutOfRange, 7, 6, 6),
                  StaleRecord(1, 1, 6, 6)>>) }

\* the previous export of a run: none (first run ever), or what the last reporter wrote
RunExports ==
    { NoCsv,
      CsvFile(<<CsvRow(<<"1">>, "PASS", Queries[1], <<"6">>, <<"6">>, <<"1">>,
                       <<"Top 1-5">>, <<>>),
                CsvRow(<<"2">>, "NOT_RUN", Queries[2], <<>>, <<>>, <<>>, <<>>, <<>>)>>) }

\* any previous export: also an empty one, and one with rows of other catalogs
PreviousExports ==
    RunExports \cup
    { CsvFile(<<>>),
      UnreadableCsv,
      CsvFile(<<CsvRow(<<"2">>, "FAIL", Queries[2], <<"0">>, <<"4">>, <<>>,
                       <<"Not Found">>, MissingMessage(0, 4)),
                CsvRow(NumberToText(OutOfRange), "PASS", "other", <<"6">>, <<"6">>,
                       <<"5", "1">>, RankRange(51), <<>>),
                CsvRow(<<"x">>, "PASS", "other", <<"6">>, <<"6">>, <<"1">>,
                       <<"Top 1-5">>, <<>>),
                CsvRow(<<"2">>, "PASS", "other", <<"3">>, <<"3">>, <<"1", "2">>,
                       <<"Top 11-20">>, <<>>)>>) }

\* the captures of an execution that reaches its end or one of its throws:
\* 01-initial-search-page, 02-filled-search-query and one of the 03- captures
StepsPerTest == 3

\* the screenshot directory as earlier runs may have left it
ShotDirs ==
    { {},
      Captured({}, 1, StepsPerTest, 1),
      Captured(Captured({}, 1, StepsPerTest - 1, 1), 2, StepsPerTest, 1) }

\* what a test found: the row of the expected item, the fields found, the fields scored
RawOutcomes ==
    { [position |-> 1, found |-> 6, total |-> 6],
      [position |-> NotFoundPosition, found |-> 3, total |-> 4] }

\* everything but the shared file, the previous export and the other specifications' inputs
InitRest ==
    /\ pc = [w \in Workers |-> "idle"]
    /\ task = [w \in Workers |-> NoTask]
    /\ attempt = [w \in Workers |-> 0]
    /\ allResults = [w \in Workers |-> <<>>]
    /\ tempFile = [w \in Workers |-> <<>>]
    /\ exec = [i \in Indices(numTests) |-> [count |-> 0, failed |-> FALSE]]
    /\ call = [i \in Indices(numTests) |-> "none"]
    /\ submitted = [i \in Indices(numTests) |-> {}]
    /\ commits = [i \in Indices(numTests) |-> 0]
    /\ parseErrors = [i \in Indices(numTests) |-> "none"]
    /\ phase = "running"
    /\ mergeInput = NoMergeInput
    /\ testResults = <<>>
    /\ summary = NoSummary
    /\ document = NoDocument

\* the first run, with TestConfig.SUCCESS_THRESHOLD as the repository has it
InitSetup ==
    /\ run = 1
    /\ configThreshold = SUCCESS_THRESHOLD

InitOther ==
    /\ sumIn = [passCount |-> 0, totalTests |-> 0]
    /\ rankIn = [position |-> NotFoundPosition, found |-> 0, total |-> 0]
    /\ rankOut = <<>>
    /\ InitSetup

Init ==
    /\ numTests \in 0..MaxCatalog
    /\ sharedFile \in RunFiles
    /\ resultsCsv \in RunExports
    /\ screenshotDir = {}
    /\ InitRest
    /\ InitOther

(***************************************************************************)
(* The workers: a test body up to its call of saveTestResult.              *)
(***************************************************************************)
\* a test is started once, and again (retries) after an execution that failed
MayStart(i) ==
    /\ i \in Indices(numTests)
    /\ call[i] # "active"
    /\ \/ exec[i].count = 0
       \/ exec[i].failed /\ exec[i].count <= TestRetries

\* the test reaches saveTestResult(index, testResults[index]) (lines 518, 544)
StartTest(w, i, raw) ==
    /\ phase = "running"
    /\ pc[w] = "idle"
    /\ MayStart(i)
    /\ LET result == BuildResult(i, raw.position, raw.found, raw.total)
       IN  /\ task' = [task EXCEPT ![w] = [index |-> i, result |-> result]]
           /\ submitted' = [submitted EXCEPT ![i] = {WithIndex(result, i)}]
           /\ exec' = [exec EXCEPT ![i] = [count |-> @.count + 1,
                                           failed |-> result.status = "FAIL"]]
    /\ pc' = [pc EXCEPT ![w] = "read"]
    /\ attempt' = [attempt EXCEPT ![w] = 0]
    /\ call' = [call EXCEPT ![i] = "active"]
    /\ parseErrors' = [parseErrors EXCEPT ![i] = "none"]
    /\ screenshotDir' = Captured(screenshotDir, i + 1, StepsPerTest, exec[i].count + 1)
    /\ UNCHANGED <<numTests, sharedFile, allResults, tempFile, commits>>
    /\ UNCHANGED reportVars
    /\ UNCHANGED otherSpecVars

\* a test that throws and leaves a FAIL record in the shared file all the same
TestThrowsAfterSave(w, i) ==
    /\ phase = "running"
    /\ pc[w] = "idle"
    /\ MayStart(i)
    /\ exec' = [exec EXCEPT ![i] = [count |-> @.count + 1, failed |-> TRUE]]
    /\ sharedFile' = ArrayFile(Upsert(IF sharedFile.kind = "array" THEN sharedFile.recs
                                      ELSE <<>>,
                                      WithIndex(BuildResult(i, 0 - 1, 0, 6), i)))
    /\ UNCHANGED <<numTests, screenshotDir, call, submitted, commits, parseErrors>>
    /\ UNCHANGED workerVars
    /\ UNCHANGED reportVars
    /\ UNCHANGED otherSpecVars

\* the test throws before it saves: in beforeEach (login failed), before the test body
\* touches the screenshots, or in the body ("No results found", no results table)
\* after its three captures
TestThrows(w, i) ==
    /\ phase = "running"
    /\ pc[w] = "idle"
    /\ MayStart(i)
    /\ exec' = [exec EXCEPT ![i] = [count |-> @.count + 1, failed |-> TRUE]]
    /\ \E inBody \in BOOLEAN :
          screenshotDir' = IF inBody
                           THEN Captured(screenshotDir, i + 1, StepsPerTest,
                                         exec[i].count + 1)
                           ELSE screenshotDir
    /\ UNCHANGED <<numTests, sharedFile, call, submitted, commits, parseErrors>>
    /\ UNCHANGED workerVars
    /\ UNCHANGED reportVars
    /\ UNCHANGED otherSpecVars

(***************************************************************************)
(* saveTestResult(index, result)                                           *)
(***************************************************************************)
LoopContinuesOffByOne(a) == a <= maxRetries

\* for (let attempt = 0; attempt < maxRetries; attempt++)
LoopContinues(a) == a < maxRetries

\* the function is left: by return after the rename, by the loop running out, or
\* (how = "raised") by an exception that reaches the caller
Return(w, how) ==
    /\ pc' = [pc EXCEPT ![w] = "idle"]
    /\ task' = [task EXCEPT ![w] = NoTask]
    /\ attempt' = [attempt EXCEPT ![w] = 0]
    /\ allResults' = [allResults EXCEPT ![w] = <<>>]
    /\ tempFile' = [tempFile EXCEPT ![w] = <<>>]
    /\ call' = [call EXCEPT ![task[w].index] = how]

\* continue, or the end of the catch block: attempt++ and the loop test
NextAttempt(w) ==
    IF LoopContinues(attempt[w] + 1)
    THEN /\ attempt' = [attempt EXCEPT ![w] = attempt[w] + 1]
         /\ pc' = [pc EXCEPT ![w] = "read"]
         /\ allResults' = [allResults EXCEPT ![w] = <<>>]
         /\ tempFile' = [tempFile EXCEPT ![w] = <<>>]
         /\ UNCHANGED <<task, call>>
    ELSE Return(w, "returned")

ParseErrorAlwaysRetries(a) == TRUE

\* catch (parseError) { if (attempt < maxRetries - 1) continue; ... allResults = [] }
ParseErrorRetries(a) == a < maxRetries - 1

\* "Read current results with validation" and "Update or add result" (lines 99-132)
ReadSnapshot(w) ==
    /\ pc[w] = "read"
    /\ LET rec == WithIndex(task[w].result, task[w].index)
           read == IF sharedFile.kind = "array" THEN sharedFile.recs ELSE <<>>
       IN  IF sharedFile.kind = "corrupt"
           THEN /\ parseErrors' = [parseErrors EXCEPT ![task[w].index] =
                                    IF ParseErrorRetries(attempt[w]) THEN "continue" ELSE "reset"]
                /\ IF ParseErrorRetries(attempt[w])
                   THEN NextAttempt(w)
                   ELSE /\ allResults' = [allResults EXCEPT ![w] = Upsert(<<>>, rec)]
                        /\ pc' = [pc EXCEPT ![w] = "write"]
                        /\ UNCHANGED <<task, attempt, tempFile, call>>
           ELSE /\ allResults' = [allResults EXCEPT ![w] = Upsert(read, rec)]
                /\ pc' = [pc EXCEPT ![w] = "write"]
                /\ UNCHANGED <<task, attempt, tempFile, call, parseErrors>>
    /\ UNCHANGED <<numTests, sharedFile, screenshotDir, exec, submitted, commits>>
    /\ UNCHANGED reportVars
    /\ UNCHANGED otherSpecVars

\* fs.writeFileSync(tempPath, JSON.stringify(allResults, null, 2))  (lines 135-136)
WriteTemp(w) ==
    /\ pc[w] = "write"
    /\ tempFile' = [tempFile EXCEPT ![w] = allResults[w]]
    /\ pc' = [pc EXCEPT ![w] = "rename"]
    /\ UNCHANGED <<numTests, sharedFile, screenshotDir, task, attempt, allResults>>
    /\ UNCHANGED historyVars
    /\ UNCHANGED reportVars
    /\ UNCHANGED otherSpecVars

\* a write of the snapshot in place, seen half done by the next reader
RenameTorn(w) ==
    /\ pc[w] = "rename"
    /\ sharedFile' = OtherFile("corrupt")
    /\ commits' = [commits EXCEPT ![task[w].index] = @ + 1]
    /\ Return(w, "returned")
    /\ UNCHANGED <<numTests, screenshotDir, exec, submitted, parseErrors>>
    /\ UNCHANGED reportVars
    /\ UNCHANGED otherSpecVars

\* fs.renameSync(tempPath, sharedResultsPath); return  (lines 137-139)
Rename(w) ==
    /\ pc[w] = "rename"
    /\ sharedFile' = ArrayFile(tempFile[w])
    /\ commits' = [commits EXCEPT ![task[w].index] = @ + 1]
    /\ Return(w, "returned")
    /\ UNCHANGED <<numTests, screenshotDir, exec, submitted, parseErrors>>
    /\ UNCHANGED reportVars
    /\ UNCHANGED otherSpecVars

CatchRethrowsOnLastAttempt(a) == a = maxRetries - 1

\* catch (error) { if (attempt === maxRetries - 1) console.error(...) }: no rethrow
CatchRethrows(a) == FALSE

\* readFileSync, writeFileSync or renameSync throws: the catch block (lines 140-147)
IOError(w) ==
    /\ pc[w] \in {"read", "write", "rename"}
    /\ IF CatchRethrows(attempt[w])
       THEN Return(w, "raised")
       ELSE NextAttempt(w)
    /\ UNCHANGED <<numTests, sharedFile, screenshotDir, exec, submitted, commits, parseErrors>>
    /\ UNCHANGED reportVars
    /\ UNCHANGED otherSpecVars

(***************************************************************************)
(* The reporter: CustomTestReporter.onEnd (custom-reporter.ts)             *)
(***************************************************************************)
\* "LOAD TEST RESULTS FROM SHARED FILE" (lines 77-94): allResults, [] unless the
\* text parses
LoadShared(file) == IF file.kind = "array" THEN file.recs ELSE <<>>

\* JSON.parse gave something that is no array: allResults.find is not a function,
\* thrown by the first call of the merge callback (line 154), outside any try
MergeThrows(file, n) == file.kind = "nonarray" /\ n > 0

\* the rows of the old CSV (lines 110-146), none when there is no file or when
\* reading or parsing it throws (the catch of line 143)
LoadPrevious(csv) == IF csv.exists /\ csv.readable THEN csv.rows ELSE <<>>

\* previousResults.set(parseInt(r.test_number), r) has a row under testNumber
HasPrevious(rows, testNumber) ==
    \E k \in 1..Len(rows) : ParseInt(rows[k].test_number) = Num(testNumber)

\* previousResults.get(testNumber): Map.set keeps the last row of a key
PreviousRun(rows, testNumber) ==
    rows[CHOOSE k \in 1..Len(rows) :
            /\ ParseInt(rows[k].test_number) = Num(testNumber)
            /\ \A j \in (k + 1)..Len(rows) : ParseInt(rows[j].test_number) # Num(testNumber)]

\* const { _testIndex, ...cleanResult } = currentRun;
\* return { test_number: testNumber, ...cleanResult }
FromCurrentRun(currentRun, testNumber) ==
    [f \in ((DOMAIN currentRun) \ {"_testIndex"}) \cup {"test_number"} |->
        IF f \in (DOMAIN currentRun) \ {"_testIndex"} THEN currentRun[f] ELSE testNumber]

\* a cell spelling 0 taken for an absent one
ParseCellZeroAbsent(cell) ==
    IF cell = <<>> \/ cell = <<"0">> THEN Undefined ELSE ParseInt(cell)

\* x && String(x).trim(), then  x ? parseInt(x) : undefined
ParseCell(cell) == IF cell = <<>> THEN Undefined ELSE ParseInt(cell)

\* the row built from the previous export (lines 166-195)
FromPreviousRun(previousRun, tc, testNumber) ==
    [test_number       |-> testNumber,
     status            |-> previousRun.status,
     aitehinmei        |-> tc.aitehinmei,
     found_count       |-> ParseCell(previousRun.found_count),
     total_count       |-> ParseCell(previousRun.total_count),
     error_message     |-> previousRun.error_message,
     screenshot_path   |-> previousRun.screenshot_path,
     result_position   |-> ParseCell(previousRun.result_position),
     result_rank_range |-> previousRun.result_rank_range]

\* a default that reports a failure
DefaultRowAsFail(tc, testNumber) ==
    [test_number |-> testNumber, status |-> "FAIL", aitehinmei |-> tc.aitehinmei,
     error_message |-> <<"no previous result">>]

\* "Default NOT_RUN from CSV template" (lines 198-208)
DefaultRow(tc, testNumber) ==
    [test_number |-> testNumber, status |-> "NOT_RUN", aitehinmei |-> tc.aitehinmei]

MergeRowPreviousFirst(idx, store, previous) ==
    LET testNumber == idx + 1
    IN  IF HasPrevious(previous, testNumber)
        THEN FromPreviousRun(PreviousRun(previous, testNumber), TestCase(idx), testNumber)
        ELSE IF FindIndex(store, idx) > 0
        THEN FromCurrentRun(store[FindIndex(store, idx)], testNumber)
        ELSE DefaultRow(TestCase(idx), testNumber)

\* the callback of testCases.map: current run > previous results > CSV template
MergeRow(idx, store, previous) ==
    LET testNumber == idx + 1
        currentRun == FindIndex(store, idx)
    IN  IF currentRun > 0
        THEN FromCurrentRun(store[currentRun], testNumber)
        ELSE IF HasPrevious(previous, testNumber)
        THEN FromPreviousRun(PreviousRun(previous, testNumber), TestCase(idx), testNumber)
        ELSE DefaultRow(TestCase(idx), testNumber)

\* one row per record found in the store, instead of one per catalog row
MergeOverStore(n, store, previous) ==
    [k \in 1..Len(store) |->
        FromCurrentRun(store[k], store[k]._testIndex + 1)]

\* this.testResults = testCases.map((tc, idx) => ...)
Merge(n, store, previous) == [k \in 1..n |-> MergeRow(k - 1, store, previous)]

\* row.status, undefined when the row has none
StatusOf(row) == IF "status" \in DOMAIN row THEN row.status ELSE "undefined"

\* this.testResults.filter((r) => r.status === s).length
CountStatus(rows, s) == Cardinality({k \in 1..Len(rows) : StatusOf(rows[k]) = s})

(***************************************************************************)
(* The summary (lines 268-289).                                            *)
(***************************************************************************)
\* ((passCount / totalTests) * 100).toFixed(1), in tenths of a percent.  toFixed
\* rounds the double to the nearest tenth; where the quotient lies exactly half way
\* the double may sit on either side, so both tenths are possible.
PassRateTenths(passCount, totalTests) ==
    IF totalTests > 0
    THEN LET q == (1000 * passCount) \div totalTests
             r == (1000 * passCount) % totalTests
         IN  IF 2 * r < totalTests THEN {q}
             ELSE IF 2 * r > totalTests THEN {q + 1}
             ELSE {q, q + 1}
    ELSE {0}

\* parseFloat(passRate) >= SUCCESS_THRESHOLD, passRate in tenths
OverallSuccess(passRate) == passRate >= SUCCESS_THRESHOLD * 10

\* Math.ceil((SUCCESS_THRESHOLD / 100) * totalTests)
RequiredPasses(totalTests) == (SUCCESS_THRESHOLD * totalTests + 99) \div 100

\* reportSummary (lines 318-327) with requiredPasses (line 287)
Summary(totalTests, passCount, failCount, notRunCount, passRate) ==
    [totalTests     |-> totalTests,
     passCount      |-> passCount,
     failCount      |-> failCount,
     notRunCount    |-> notRunCount,
     passRate       |-> passRate,
     requiredPasses |-> RequiredPasses(totalTests),
     suiteStatus    |-> IF OverallSuccess(passRate) THEN "PASSED" ELSE "FAILED"]

\* a row of the CSV report (lines 240-260), as csv-parse returns it to the next run
CsvRowOf(row) ==
    LET text(f) == IF f \in DOMAIN row THEN row[f] ELSE <<>>
        number(f) == IF f \in DOMAIN row THEN CellOf(row[f]) ELSE <<>>
    IN  [CsvRow(NumberToText(row.test_number),
                IF "status" \in DOMAIN row THEN row.status ELSE "",
                IF "aitehinmei" \in DOMAIN row THEN row.aitehinmei ELSE "",
                number("found_count"), number("total_count"), number("result_position"),
                text("result_rank_range"), text("error_message"))
            EXCEPT !.screenshot_path = text("screenshot_path")]

\* what the load of the previous export met (lines 111-146)
ExportKind(csv) ==
    IF ~csv.exists THEN "missing" ELSE IF ~csv.readable THEN "unreadable" ELSE "read"

\* resultsForDeploy (lines 383-403): the row with the screenshots of its test id
DeployRow(row, dir) ==
    LET stepScreenshots == SortFiles(FilesOf(dir, row.test_number))
    IN  [f \in (DOMAIN row) \cup {"step_screenshots", "screenshot_path"} |->
            IF f = "step_screenshots" THEN stepScreenshots
            ELSE IF f = "screenshot_path" THEN JoinRefs(stepScreenshots)
            ELSE row[f]]

\* generateTestCaseHTML throws a TypeError on a row without status
\* (test.status.toLowerCase()) or without a text field escapeHtml is called on
\* unguarded (text.replace); nothing in generate catches it
GenerateThrows(rows) ==
    \E k \in 1..Len(rows) :
        \/ "status" \notin DOMAIN rows[k]
        \/ "aitehinmei" \notin DOMAIN rows[k]

\* a === b for number | undefined | NaN: NaN equals nothing, itself included
StrictEquals(a, b) == a.t # "NaN" /\ a = b

\* matchResultClass of generateTestCaseHTML (lines 1038-1043), which also selects
\* the text of the section (lines 1110-1116); a field the row lacks is undefined
MatchResultClass(test) ==
    LET count(f) == IF f \in DOMAIN test THEN test[f] ELSE Undefined
    IN  IF StrictEquals(count("found_count"), count("total_count"))
        THEN "success"
        ELSE IF count("found_count").t = "num" /\ count("found_count").v > 0
        THEN "partial"
        ELSE "failed"

\* HTMLReportGenerator.generate(resultsForDeploy, reportSummary, deployIndexPath)
Document(rows, dir, suiteStatus, n) ==
    [written |-> TRUE, run |-> n,
     rows |-> [k \in 1..Len(rows) |-> DeployRow(rows[k], dir)],
     matchResult |-> [k \in 1..Len(rows) |-> MatchResultClass(rows[k])],
     suiteStatus |-> suiteStatus]

\* the reporter API: onEnd is called after all tests have been run, every worker
\* having finished
WorkersDoneIgnored == TRUE

WorkersDone == \A w \in Workers : pc[w] = "idle"

\* onEnd, run once by the runner after every worker has finished
OnEnd ==
    /\ phase = "running"
    /\ WorkersDone
    /\ IF MergeThrows(sharedFile, numTests)
       THEN /\ phase' = "crashed"
            /\ mergeInput' = [kind |-> sharedFile.kind, export |-> ExportKind(resultsCsv),
                              store |-> <<>>, previous |-> LoadPrevious(resultsCsv)]
            /\ UNCHANGED <<sharedFile, resultsCsv, testResults, summary, document>>
       ELSE LET store == LoadShared(sharedFile)
                previous == LoadPrevious(resultsCsv)
                rows == Merge(numTests, store, previous)
                passCount == CountStatus(rows, "PASS")
            IN  /\ phase' = "reported"
                /\ mergeInput' = [kind |-> sharedFile.kind,
                                  export |-> ExportKind(resultsCsv),
                                  store |-> store, previous |-> previous]
                /\ testResults' = rows
                /\ resultsCsv' = CsvFile([k \in 1..Len(rows) |-> CsvRowOf(rows[k])])
                /\ \E passRate \in PassRateTenths(passCount, Len(rows)) :
                      /\ summary' = Summary(Len(rows), passCount,
                                            CountStatus(rows, "FAIL"),
                                            CountStatus(rows, "NOT_RUN"), passRate)
                      \* the try block of lines 317-422
                      /\ document' =
                            IF GenerateThrows(rows) THEN document
                            ELSE Document(rows, screenshotDir,
                                          IF OverallSuccess(passRate) THEN "PASSED"
                                          ELSE "FAILED", run)
                /\ sharedFile' = OtherFile("missing")
    /\ UNCHANGED <<numTests, screenshotDir>>
    /\ UNCHANGED workerVars
    /\ UNCHANGED historyVars
    /\ UNCHANGED otherSpecVars

(***************************************************************************)
(* Specifications of a run.                                                *)
(***************************************************************************)
Next ==
    \/ \E w \in Workers, i \in Indices(MaxCatalog), raw \in RawOutcomes : StartTest(w, i, raw)
    \/ \E w \in Workers, i \in Indices(MaxCatalog) : TestThrows(w, i)
    \/ \E w \in Workers : ReadSnapshot(w)
    \/ \E w \in Workers : WriteTemp(w)
    \/ \E w \in Workers : Rename(w)
    \/ OnEnd

\* a run on a file system that does not fail
Spec == Init /\ [][Next]_vars

NextFault == Next \/ \E w \in Workers : IOError(w)

\* a run in which reads, writes and renames of saveTestResult may throw
SpecFault == Init /\ [][NextFault]_vars

(***************************************************************************)
(* A run that finds the shared file of an earlier run whose onEnd did not  *)
(* reach its cleanup: the module load keeps a file that exists (lines      *)
(* 70-77, "rerun mode").                                                   *)
(***************************************************************************)
\* the record an earlier run's test i saved; no test of this run saves the same
StaleOutcome(i, status) ==
    IF status = "PASS" THEN WithIndex(BuildResult(i, 7, 6, 6), i)
    ELSE WithIndex(BuildResult(i, NotFoundPosition, 0, 6), i)

\* the shared file as saveTestResult calls of an earlier run on a catalog of n rows
\* left it: one record per index at most, in the order of their first save
StaleFiles(n) ==
    {ArrayFile(<<StaleOutcome(i, "PASS")>>) : i \in Indices(n)}
    \cup {ArrayFile(<<StaleOutcome(p[1], "FAIL"), StaleOutcome(p[2], "PASS")>>) :
             p \in {q \in Indices(n) \X Indices(n) : q[1] # q[2]}}

InitStale ==
    /\ numTests \in 0..MaxCatalog
    /\ sharedFile \in RunFiles \cup StaleFiles(numTests)
    /\ resultsCsv \in RunExports
    /\ screenshotDir = {}
    /\ InitRest
    /\ InitOther

\* a run of two workers that finds such a file
SpecStale == InitStale /\ [][Next]_vars

\* the worker of a run with one worker
Solo == CHOOSE w \in Workers : TRUE

NextSolo ==
    \/ \E i \in Indices(MaxCatalog), raw \in RawOutcomes : StartTest(Solo, i, raw)
    \/ \E i \in Indices(MaxCatalog) : TestThrows(Solo, i)
    \/ ReadSnapshot(Solo)
    \/ WriteTemp(Solo)
    \/ Rename(Solo)
    \/ IOError(Solo)
    \/ OnEnd

\* a run with a single worker (workers: 1), I/O errors included
SpecSolo == InitStale /\ [][NextSolo]_vars

(***************************************************************************)
(* A run from the start of the runner: every process that loads the test   *)
(* module runs its check-then-create of the shared file (lines 65-77).     *)
(* The runner loads the module to collect the tests; a worker process      *)
(* loads it when it starts, and a new worker process is started after a    *)
(* test has failed.  Here pc also has an entry for the runner, and the     *)
(* values "unloaded" (module not loaded yet), "create" (existsSync gave     *)
(* false, writeFileSync not yet called) and, for the runner, "loaded".     *)
(***************************************************************************)
Runner == "runner"

Processes == Workers \cup {Runner}

\* workers are started whether or not the runner has collected the tests
RunnerLoadedIgnored == TRUE

\* tests are handed to workers after the runner has loaded the module and collected them
RunnerLoaded == pc[Runner] = "loaded"

Loaded(p) == IF p = Runner THEN "loaded" ELSE "idle"

InitLoad ==
    /\ numTests \in 1..MaxCatalog
    /\ sharedFile \in {OtherFile("missing")} \cup StaleFiles(numTests)
    /\ resultsCsv = NoCsv
    /\ screenshotDir = {}
    /\ pc = [p \in Processes |-> "unloaded"]
    /\ task = [w \in Workers |-> NoTask]
    /\ attempt = [w \in Workers |-> 0]
    /\ allResults = [w \in Workers |-> <<>>]
    /\ tempFile = [w \in Workers |-> <<>>]
    /\ exec = [i \in Indices(numTests) |-> [count |-> 0, failed |-> FALSE]]
    /\ call = [i \in Indices(numTests) |-> "none"]
    /\ submitted = [i \in Indices(numTests) |-> {}]
    /\ commits = [i \in Indices(numTests) |-> 0]
    /\ parseErrors = [i \in Indices(numTests) |-> "none"]
    /\ phase = "running"
    /\ mergeInput = NoMergeInput
    /\ testResults = <<>>
    /\ summary = NoSummary
    /\ document = NoDocument
    /\ InitOther

\* if (!fs.existsSync(sharedResultsPath))
LoadCheck(p) ==
    /\ phase = "running"
    /\ pc[p] = "unloaded"
    /\ p \in Workers => RunnerLoaded
    /\ pc' = [pc EXCEPT ![p] = IF sharedFile.kind = "missing" THEN "create" ELSE Loaded(p)]
    /\ UNCHANGED <<numTests, sharedFile, screenshotDir, task, attempt, allResults, tempFile>>
    /\ UNCHANGED historyVars
    /\ UNCHANGED reportVars
    /\ UNCHANGED otherSpecVars

\* fs.writeFileSync(sharedResultsPath, JSON.stringify([]), 'utf-8')
LoadCreate(p) ==
    /\ pc[p] = "create"
    /\ sharedFile' = ArrayFile(<<>>)
    /\ pc' = [pc EXCEPT ![p] = Loaded(p)]
    /\ UNCHANGED <<numTests, screenshotDir, task, attempt, allResults, tempFile>>
    /\ UNCHANGED historyVars
    /\ UNCHANGED reportVars
    /\ UNCHANGED otherSpecVars

\* after a failed test the worker process is replaced by a new one
WorkerRestart(w) ==
    /\ phase = "running"
    /\ pc[w] = "idle"
    /\ \E i \in Indices(numTests) : exec[i].failed
    /\ pc' = [pc EXCEPT ![w] = "unloaded"]
    /\ UNCHANGED <<numTests, sharedFile, screenshotDir, task, attempt, allResults, tempFile>>
    /\ UNCHANGED historyVars
    /\ UNCHANGED reportVars
    /\ UNCHANGED otherSpecVars

NextLoad ==
    \/ \E p \in Processes : LoadCheck(p)
    \/ \E p \in Processes : LoadCreate(p)
    \/ \E w \in Workers : WorkerRestart(w)
    \/ Next

SpecLoad == InitLoad /\ [][NextLoad]_vars

(***************************************************************************)
(* The reporter alone, over any shared file and any previous export.       *)
(***************************************************************************)
InitMerge ==
    /\ numTests \in 0..MaxCatalog
    /\ sharedFile \in MergeFiles
    /\ resultsCsv \in PreviousExports
    /\ screenshotDir \in ShotDirs
    /\ InitRest
    /\ InitOther

SpecMerge == InitMerge /\ [][OnEnd]_vars

(***************************************************************************)
(* The reporter over shared files in which one record is short of fields.  *)
(***************************************************************************)
\* arrays of records as JSON.parse returns them from a file another program or an
\* older version of the test wrote: a record with its index alone, a record
\* without its text field, beside complete ones
RenderFiles ==
    { ArrayFile(<<>>),
      ArrayFile(<<WithIndex(BuildResult(0, 1, 6, 6), 0)>>),
      ArrayFile(<<[_testIndex |-> 0]>>),
      ArrayFile(<<WithIndex(BuildResult(0, 7, 6, 6), 0),
                  [_testIndex |-> 1, status |-> "PASS"]>>),
      ArrayFile(<<[_testIndex |-> 0, aitehinmei |-> Queries[1]],
                  WithIndex(BuildResult(1, NotFoundPosition, 0, 6), 1)>>) }

\* any previous export, and the one the reporter writes for a row without
\* status: stringify leaves the cell of an undefined value empty (lines 240-260)
RenderExports ==
    PreviousExports \cup
    { CsvFile(<<CsvRowOf([test_number |-> 1]),
                CsvRow(<<"2">>, "PASS", Queries[2], <<"6">>, <<"6">>, <<"1">>,
                       <<"Top 1-5">>, <<>>)>>) }

InitRender ==
    /\ numTests \in 0..MaxCatalog
    /\ sharedFile \in RenderFiles
    /\ resultsCsv \in RenderExports
    /\ screenshotDir \in ShotDirs
    /\ InitRest
    /\ InitOther

SpecRender == InitRender /\ [][OnEnd]_vars

(***************************************************************************)
(* The step screenshots over executions of the tests of a large catalog.   *)
(* Here exec[i] also tells how many steps the last execution of i captured *)
(* and whether it reached the test body, and counts the executions of i    *)
(* over all runs.                                                          *)
(***************************************************************************)
\* the rows of the catalog
MaxShotCatalog == 1000

\* the tests followed: the first, the last, and the one whose number is the last's
\* without its final digit
ShotIndices == {0, (MaxShotCatalog \div 10) - 1, MaxShotCatalog - 1}

InitShots ==
    /\ numTests = MaxShotCatalog
    /\ sharedFile = ArrayFile(<<>>)
    /\ resultsCsv = NoCsv
    /\ screenshotDir = {}
    /\ pc = [w \in Workers |-> "idle"]
    /\ task = [w \in Workers |-> NoTask]
    /\ attempt = [w \in Workers |-> 0]
    /\ allResults = [w \in Workers |-> <<>>]
    /\ tempFile = [w \in Workers |-> <<>>]
    /\ exec = [i \in ShotIndices |-> [count |-> 0, failed |-> FALSE, body |-> FALSE, steps |-> 0]]
    /\ call = [i \in ShotIndices |-> "none"]
    /\ submitted = [i \in ShotIndices |-> {}]
    /\ commits = [i \in ShotIndices |-> 0]
    /\ parseErrors = [i \in ShotIndices |-> "none"]
    /\ phase = "running"
    /\ mergeInput = NoMergeInput
    /\ testResults = <<>>
    /\ summary = NoSummary
    /\ document = NoDocument
    /\ InitOther

\* an execution of test i reaches the body: the old screenshots of its test id are
\* deleted (lines 191-206), then it captures step 01 and, as far as it gets, 02 and 03
ExecuteTest(i, steps) ==
    /\ exec[i].count < MaxRuns
    /\ exec' = [exec EXCEPT ![i] = [count |-> @.count + 1, failed |-> steps < StepsPerTest,
                                    body |-> TRUE, steps |-> steps]]
    /\ screenshotDir' = Captured(screenshotDir, i + 1, steps, exec[i].count + 1)
    /\ UNCHANGED <<numTests, sharedFile, call, submitted, commits, parseErrors>>
    /\ UNCHANGED workerVars
    /\ UNCHANGED reportVars
    /\ UNCHANGED otherSpecVars

\* an execution of test i fails in beforeEach (lines 160-171): the body never runs
LoginFails(i) ==
    /\ exec[i].count < MaxRuns
    /\ exec' = [exec EXCEPT ![i] = [count |-> @.count + 1, failed |-> TRUE,
                                    body |-> FALSE, steps |-> 0]]
    /\ UNCHANGED <<numTests, sharedFile, screenshotDir, call, submitted, commits, parseErrors>>
    /\ UNCHANGED workerVars
    /\ UNCHANGED reportVars
    /\ UNCHANGED otherSpecVars

NextShots ==
    \/ \E i \in ShotIndices, steps \in 1..StepsPerTest : ExecuteTest(i, steps)
    \/ \E i \in ShotIndices : LoginFails(i)

SpecShots == InitShots /\ [][NextShots]_vars

(***************************************************************************)
(* The reporter on a catalog of three rows, each test saved as PASS or     *)
(* FAIL or not saved in this run, each with or without a row in the        *)
(* previous export, under either setting of TestConfig.SUCCESS_THRESHOLD.  *)
(***************************************************************************)
ScenarioIndices == <<0, 1, 2>>

\* the record test i saves with the given status
ScenarioRecord(i, status) ==
    IF status = "PASS" THEN WithIndex(BuildResult(i, 1, 6, 6), i)
    ELSE WithIndex(BuildResult(i, NotFoundPosition, 4, 6), i)

\* the row an earlier reporter wrote for test i
ScenarioRow(i, status) ==
    IF status = "PASS"
    THEN CsvRow(NumberToText(i + 1), "PASS", Queries[i + 1], <<"6">>, <<"6">>, <<"1">>,
                <<"Top 1-5">>, <<>>)
    ELSE CsvRow(NumberToText(i + 1), status, Queries[i + 1], <<>>, <<>>, <<>>, <<>>, <<>>)

\* the shared file's records, in index order, for the tests that saved
ScenarioStore(outcome) ==
    LET saved == SelectSeq(ScenarioIndices, LAMBDA i : outcome[i] # "none")
    IN  [k \in 1..Len(saved) |-> ScenarioRecord(saved[k], outcome[saved[k]])]

\* the previous export's rows, in index order, for the tests it has a row of
ScenarioExport(outcome) ==
    LET held == SelectSeq(ScenarioIndices, LAMBDA i : outcome[i] # "none")
    IN  [k \in 1..Len(held) |-> ScenarioRow(held[k], outcome[held[k]])]

InitScenario ==
    /\ numTests = Len(ScenarioIndices)
    /\ \E outcome \in [Indices(Len(ScenarioIndices)) -> {"none", "PASS", "FAIL"}] :
          sharedFile = ArrayFile(ScenarioStore(outcome))
    /\ \E outcome \in [Indices(Len(ScenarioIndices)) -> {"none", "PASS", "NOT_RUN"}] :
          resultsCsv = CsvFile(ScenarioExport(outcome))
    /\ screenshotDir = {}
    /\ InitRest
    /\ sumIn = [passCount |-> 0, totalTests |-> 0]
    /\ rankIn = [position |-> NotFoundPosition, found |-> 0, total |-> 0]
    /\ rankOut = <<>>
    /\ run = 1
    /\ configThreshold \in {60, SUCCESS_THRESHOLD}

SpecScenario == InitScenario /\ [][OnEnd]_vars

(***************************************************************************)
(* The reporter over consecutive runs: the export of one run is the        *)
(* previous export of the next.                                            *)
(***************************************************************************)
\* the shared file at the end of a later run in which no test or one test saved
NextRunFiles ==
    { OtherFile("missing"),
      ArrayFile(<<>>),
      ArrayFile(<<WithIndex(BuildResult(0, 7, 5, 6), 0)>>) }

\* the runner is started again on the same catalog: a new reporter, the shared file
\* as this run's tests leave it, the export and the screenshots as they are
NextRun ==
    /\ phase = "reported"
    /\ run < MaxRuns
    /\ run' = run + 1
    /\ phase' = "running"
    /\ sharedFile' \in NextRunFiles
    /\ mergeInput' = NoMergeInput
    /\ summary' = NoSummary
    /\ document' = NoDocument
    /\ UNCHANGED <<numTests, resultsCsv, testResults, screenshotDir, configThreshold,
                   sumIn, rankIn, rankOut>>
    /\ UNCHANGED workerVars
    /\ UNCHANGED historyVars

SpecRerun == InitMerge /\ [][OnEnd \/ NextRun]_vars

(***************************************************************************)
(* Whole runs one after the other, a run being ended by its onEnd or       *)
(* stopped before onEnd has run (the runner killed or interrupted).        *)
(***************************************************************************)
\* the runner and its workers are stopped between two saves; onEnd does not run,
\* so the shared file stays as the tests left it
RunAborted ==
    /\ phase = "running"
    /\ WorkersDone
    /\ phase' = "aborted"
    /\ UNCHANGED <<numTests, sharedFile, resultsCsv, mergeInput, testResults, summary,
                   document, screenshotDir>>
    /\ UNCHANGED workerVars
    /\ UNCHANGED historyVars
    /\ UNCHANGED otherSpecVars

\* the runner is started again: the module load (lines 59-77) creates the shared file
\* as [] if there is none and keeps the one it finds; nothing has run yet in this run
RunStarts ==
    /\ phase \in {"reported", "aborted"}
    /\ run < MaxRuns
    /\ run' = run + 1
    /\ phase' = "running"
    /\ sharedFile' = IF sharedFile.kind = "missing" THEN ArrayFile(<<>>) ELSE sharedFile
    /\ exec' = [i \in Indices(numTests) |-> [count |-> 0, failed |-> FALSE]]
    /\ call' = [i \in Indices(numTests) |-> "none"]
    /\ submitted' = [i \in Indices(numTests) |-> {}]
    /\ commits' = [i \in Indices(numTests) |-> 0]
    /\ parseErrors' = [i \in Indices(numTests) |-> "none"]
    /\ mergeInput' = NoMergeInput
    /\ summary' = NoSummary
    /\ document' = NoDocument
    /\ UNCHANGED <<numTests, resultsCsv, testResults, screenshotDir, configThreshold,
                   sumIn, rankIn, rankOut>>
    /\ UNCHANGED workerVars

NextRuns == Next \/ RunAborted \/ RunStarts

SpecRuns == Init /\ [][NextRuns]_vars

(***************************************************************************)
(* The merge alone, applied twice to the arrays onEnd has loaded.          *)
(***************************************************************************)
StoreAfterMergeConsumed(store) == <<>>

\* allResults after testCases.map: find reads it, and the rest destructuring
\* { _testIndex, ...cleanResult } copies the record found (lines 154-160)
StoreAfterMerge(store) == store

\* the rows of previousResults after testCases.map: get reads the Map, and the row
\* found is only read (lines 165-194)
PreviousAfterMerge(previous) == previous

InitIdem ==
    /\ numTests \in 0..MaxCatalog
    /\ sharedFile \in MergeFiles \ {OtherFile("nonarray")}
    /\ resultsCsv \in PreviousExports
    /\ screenshotDir = {}
    /\ InitRest
    /\ InitOther

\* lines 77-146: allResults and previousResults are loaded
LoadInputs ==
    /\ phase = "running"
    /\ phase' = "loaded"
    /\ mergeInput' = [kind |-> sharedFile.kind, export |-> ExportKind(resultsCsv),
                      store |-> LoadShared(sharedFile),
                      previous |-> LoadPrevious(resultsCsv)]
    /\ UNCHANGED <<numTests, sharedFile, resultsCsv, testResults, summary, document,
                   screenshotDir>>
    /\ UNCHANGED workerVars
    /\ UNCHANGED historyVars
    /\ UNCHANGED otherSpecVars

\* lines 149-209, once and once more over the same arrays
MergeOnly ==
    /\ phase \in {"loaded", "merged"}
    /\ phase' = IF phase = "loaded" THEN "merged" ELSE "remerged"
    /\ testResults' = Merge(numTests, mergeInput.store, mergeInput.previous)
    /\ mergeInput' = [mergeInput EXCEPT !.store = StoreAfterMerge(@),
                                        !.previous = PreviousAfterMerge(@)]
    /\ UNCHANGED <<numTests, sharedFile, resultsCsv, summary, document, screenshotDir>>
    /\ UNCHANGED workerVars
    /\ UNCHANGED historyVars
    /\ UNCHANGED otherSpecVars

SpecIdem == InitIdem /\ [][LoadInputs \/ MergeOnly]_vars

(***************************************************************************)
(* The summary arithmetic alone, over the counts of any merged matrix.     *)
(***************************************************************************)
InitSummary ==
    /\ numTests = 0
    /\ sharedFile = OtherFile("missing")
    /\ resultsCsv = NoCsv
    /\ InitRest
    /\ \E t \in 0..MaxTotal, p \in 0..MaxTotal :
          /\ p <= t
          /\ sumIn = [passCount |-> p, totalTests |-> t]
    /\ rankIn = [position |-> NotFoundPosition, found |-> 0, total |-> 0]
    /\ rankOut = <<>>
    /\ screenshotDir = {}
    /\ InitSetup

\* lines 268-289 for a matrix of sumIn.totalTests rows, sumIn.passCount of them PASS
Summarize ==
    /\ summary = NoSummary
    /\ \E passRate \in PassRateTenths(sumIn.passCount, sumIn.totalTests) :
          summary' = Summary(sumIn.totalTests, sumIn.passCount,
                             sumIn.totalTests - sumIn.passCount, 0, passRate)
    /\ UNCHANGED <<numTests, sharedFile, resultsCsv, phase, mergeInput, testResults,
                   document, screenshotDir>>
    /\ UNCHANGED workerVars
    /\ UNCHANGED historyVars
    /\ UNCHANGED otherSpecVars

SpecSummary == InitSummary /\ [][Summarize]_vars

(***************************************************************************)
(* The test body's result record alone, over what a test can find.         *)
(***************************************************************************)
Positions == {NotFoundPosition} \cup (1..MaxPosition)

InitRank ==
    /\ numTests = 1
    /\ sharedFile = ArrayFile(<<>>)
    /\ resultsCsv = NoCsv
    /\ InitRest
    /\ sumIn = [passCount |-> 0, totalTests |-> 0]
    /\ \E p \in Positions, t \in 0..NumFields, f \in 0..NumFields :
          /\ f <= t
          /\ rankIn = [position |-> p, found |-> f, total |-> t]
    /\ rankOut = <<>>
    /\ screenshotDir = {}
    /\ InitSetup

\* lines 322-345 and 439-477 / 521-526, then { ...result, _testIndex: index }
StoreResult ==
    /\ rankOut = <<>>
    /\ rankOut' = <<WithIndex(BuildResult(0, rankIn.position, rankIn.found, rankIn.total),
                              0)>>
    /\ UNCHANGED <<numTests, sharedFile, resultsCsv, phase, mergeInput, testResults,
                   summary, document, screenshotDir, sumIn, rankIn, run, configThreshold>>
    /\ UNCHANGED workerVars
    /\ UNCHANGED historyVars

SpecRank == InitRank /\ [][StoreResult]_vars

(***************************************************************************)
(* The test body's field checks and verdict (lines 347-547), for one       *)
(* catalog row and one results table.  Here rankIn holds the row's six     *)
(* expected values, the values the table's text contains and the position  *)
(* found; rankOut the records handed to saveTestResult, in order.          *)
(***************************************************************************)
ExpectedFields == <<"hinban", "skname1", "colorcd", "colornm", "sizecd", "sizename">>

\* a catalog cell after csv-parse's trim: empty, the sentinel, or a value
CellValues == {"", "-", "A", "B"}

\* a scoring that leaves the sentinel out for every field
ScoredSentinelEverywhere(field, value) == value # "" /\ value # "-"

\* the guards of the six checks: hinban and skname1 (REQUIRED) are pushed when not
\* empty, the colour and size fields when not empty and not '-'
Scored(field, value) ==
    IF field \in {"hinban", "skname1"}
    THEN value # ""
    ELSE value # "" /\ value # "-"

\* foundFields: the fields pushed, and of these the ones with found = true
\* (resultText.includes(value))
FoundFields(values, text) ==
    [pushed |-> {k \in 1..Len(ExpectedFields) : Scored(ExpectedFields[k], values[k])},
     found  |-> {k \in 1..Len(ExpectedFields) :
                    Scored(ExpectedFields[k], values[k]) /\ values[k] \in text}]

\* nothing between expect(...) and the end of the try block throws: the highlight
\* has its own try/catch and saveTestResult does not rethrow
PassBranchThrows == CatchRethrows(maxRetries - 1)

\* the records saveTestResult is called with: the try block's (PASS) and the catch
\* block's (FAIL)
Saves(values, text, position) ==
    LET ff == FoundFields(values, text)
        foundCount == Cardinality(ff.found)
        totalCount == Cardinality(ff.pushed)
        saved == WithIndex(BuildResult(0, position, foundCount, totalCount), 0)
    IN  IF foundCount = totalCount
        THEN IF PassBranchThrows
             THEN <<saved, [saved EXCEPT !.status = "FAIL",
                                         !.error_message = MissingMessage(foundCount, totalCount)]>>
             ELSE <<saved>>
        ELSE <<saved>>

InitScore ==
    /\ numTests = 1
    /\ sharedFile = ArrayFile(<<>>)
    /\ resultsCsv = NoCsv
    /\ InitRest
    /\ sumIn = [passCount |-> 0, totalTests |-> 0]
    /\ \E values \in [1..Len(ExpectedFields) -> CellValues],
          text \in SUBSET (CellValues \ {""}),
          position \in {NotFoundPosition, 1} :
          \* a row that holds the hinban is part of the table's text
          /\ position > 0 => (values[1] = "" \/ values[1] \in text)
          /\ rankIn = [values |-> values, text |-> text, position |-> position]
    /\ rankOut = <<>>
    /\ screenshotDir = {}
    /\ InitSetup

\* the field checks, the verdict, the save or saves, and the rethrow of a failure
Verdict ==
    /\ rankOut = <<>>
    /\ rankOut' = Saves(rankIn.values, rankIn.text, rankIn.position)
    /\ exec' = [exec EXCEPT ![0] =
                  [count |-> 1,
                   failed |-> LET ff == FoundFields(rankIn.values, rankIn.text)
                              IN  ff.found # ff.pushed \/ PassBranchThrows]]
    /\ UNCHANGED <<numTests, sharedFile, resultsCsv, phase, mergeInput, testResults,
                   summary, document, screenshotDir, sumIn, rankIn, run, configThreshold>>
    /\ UNCHANGED workerVars
    /\ UNCHANGED <<call, submitted, commits, parseErrors>>

SpecScore == InitScore /\ [][Verdict]_vars

(***************************************************************************)
(* Properties of the merge.                                                *)
(***************************************************************************)
\* the fields a row owes to an execution, not to the catalog
DerivedFields ==
    {"found_count", "total_count", "result_position", "result_rank_range",
     "error_message", "screenshot_path"}

\* the positions of the store records of index i
StoreRecordsOf(store, i) == {k \in 1..Len(store) : store[k]._testIndex = i}

\* the positions of the previous export's rows of index i (test_number i + 1)
PreviousRowsOf(previous, i) ==
    {k \in 1..Len(previous) : ParseInt(previous[k].test_number) = Num(i + 1)}

\* the row is the record: every field of the record but the index tag, and no other
\* field than its test_number
RowEqualsRecord(row, rec) ==
    /\ DOMAIN row = ((DOMAIN rec) \ {"_testIndex"}) \cup {"test_number"}
    /\ \A f \in (DOMAIN rec) \ {"_testIndex"} : row[f] = rec[f]

\* the row has the status of the previous row, its texts, and numbers that spell
\* the previous row's cells
RowTakesPrevious(row, prev) ==
    /\ row.status = prev.status
    /\ row.result_rank_range = prev.result_rank_range
    /\ row.error_message = prev.error_message
    /\ CellOf(row.found_count) = prev.found_count
    /\ CellOf(row.total_count) = prev.total_count
    /\ CellOf(row.result_position) = prev.result_position

\* the row is the default: NOT_RUN, no derived field
RowIsDefault(row) ==
    /\ row.status = "NOT_RUN"
    /\ (DOMAIN row) \cap DerivedFields = {}

\* the row of index i comes from the previous export if that has a row for i, and is
\* the default otherwise
RowFallsThrough(row, previous, i) ==
    IF PreviousRowsOf(previous, i) # {}
    THEN \E k \in PreviousRowsOf(previous, i) : RowTakesPrevious(row, previous[k])
    ELSE RowIsDefault(row)

MergePriority ==
    phase = "reported" =>
        \A i \in Indices(numTests) :
            LET row == testResults[i + 1]
                store == mergeInput.store
            IN  IF StoreRecordsOf(store, i) # {}
                THEN \E k \in StoreRecordsOf(store, i) : RowEqualsRecord(row, store[k])
                ELSE RowFallsThrough(row, mergeInput.previous, i)

\* C2 witness: a FAIL record of the store wins over a PASS row of the previous export
MergePriorityWitness ==
    /\ phase = "reported"
    /\ \E i \in Indices(numTests) :
          /\ \E k \in StoreRecordsOf(mergeInput.store, i) :
                mergeInput.store[k].status = "FAIL"
          /\ \E k \in PreviousRowsOf(mergeInput.previous, i) :
                mergeInput.previous[k].status = "PASS"
          /\ testResults[i + 1].status = "FAIL"

(***************************************************************************)
(* Properties of the shared file under concurrent saveTestResult calls.    *)
(***************************************************************************)
\* the committed snapshot holds the record
InFile(file, rec) ==
    /\ file.kind = "array"
    /\ \E k \in 1..Len(file.recs) : file.recs[k] = rec

\* this step is the rename of a saveTestResult call for index i
CommitsIndex(i) ==
    \E w \in Workers :
        /\ pc[w] = "rename"
        /\ task[w].index = i
        /\ commits'[i] = commits[i] + 1

\* C3: when the saveTestResult calls of two different indices have both returned,
\* the committed snapshot holds the record of both, whatever the interleaving of
\* their reads, temp writes and renames.
BothSubmitsStored ==
    phase = "running" =>
        \A i, j \in Indices(numTests) :
            (i # j /\ call[i] = "returned" /\ call[j] = "returned") =>
                \A rec \in submitted[i] \cup submitted[j] : InFile(sharedFile, rec)

\* C4: a record committed in this run for index i stays in the committed snapshot,
\* unchanged, through every step of the run that is not the commit of a
\* saveTestResult call for the same index i.
NoClobberByOtherIndex ==
    [][ \A i \in Indices(numTests) :
            \A rec \in submitted[i] :
                (InFile(sharedFile, rec) /\ phase' = "running" /\ ~CommitsIndex(i))
                    => InFile(sharedFile', rec) ]_vars

\* C5: a saveTestResult call that found the shared file unparsable, with no other
\* call made beside it, returns to its caller, and when it has returned the
\* committed snapshot is the array of exactly its own record.
CorruptSnapshotReplaced ==
    phase = "running" =>
        \A i \in Indices(numTests) :
            (parseErrors[i] # "none" /\ \A j \in Indices(numTests) \ {i} : call[j] = "none") =>
                /\ call[i] # "raised"
                /\ call[i] = "returned" =>
                      \E rec \in submitted[i] : sharedFile = ArrayFile(<<rec>>)

\* C5 witness: a call, alone, met the unparsable file up to its last attempt, started
\* from [] there, and has returned
CorruptSnapshotReplacedWitness ==
    /\ phase = "running"
    /\ \E i \in Indices(numTests) :
          /\ call[i] = "returned"
          /\ parseErrors[i] = "reset"
          /\ commits[i] = 1
          /\ \A j \in Indices(numTests) \ {i} : call[j] = "none"

(***************************************************************************)
(* Properties of saveTestResult when reads, writes and renames may throw.  *)
(***************************************************************************)
\* the calls for index i of this run have ended and none of them renamed
NothingSaved(i) == call[i] = "returned" /\ commits[i] = 0

Remaining(p, a) ==
    IF p = "idle" THEN 0
    ELSE 3 * (maxRetries - a) - (IF p = "read" THEN 0 ELSE IF p = "write" THEN 1 ELSE 2)

\* C7: a saveTestResult call never begins a sixth attempt (attempt stays below
\* maxRetries), every step of the call brings it nearer to its return whatever the
\* other workers do, and the step that renames returns.
SubmitBounded ==
    /\ [](\A w \in Workers : attempt[w] >= 0 /\ attempt[w] < maxRetries)
    /\ [][ \A w \in Workers :
              /\ (pc[w] # "idle" /\ <<pc[w], attempt[w]>> # <<pc'[w], attempt'[w]>>)
                    => Remaining(pc'[w], attempt'[w]) < Remaining(pc[w], attempt[w])
              /\ (pc[w] # "idle" /\ sharedFile' # sharedFile /\ phase' = "running"
                    /\ commits'[task[w].index] # commits[task[w].index])
                    => (pc'[w] = "idle" /\ call'[task[w].index] = "returned") ]_vars

\* C7 witness: a call is in its fifth attempt, about to rename
SubmitBoundedWitness ==
    \E w \in Workers : attempt[w] = maxRetries - 1 /\ pc[w] = "rename"

(***************************************************************************)
(* Properties of the summary.                                              *)
(***************************************************************************)
\* C8: the suite status is PASSED exactly when passCount / totalTests * 100 is at
\* least SUCCESS_THRESHOLD (a rate of 0 when there are no tests).
SuiteStatusByPassRate ==
    summary.suiteStatus # "none" =>
        (summary.suiteStatus = "PASSED"
            <=> /\ summary.totalTests > 0
                /\ 100 * summary.passCount >= SUCCESS_THRESHOLD * summary.totalTests)

\* C9: with fewer PASS rows than requiredPasses = ceil(SUCCESS_THRESHOLD / 100 *
\* totalTests), in particular with one fewer, the suite status is FAILED.
BelowRequiredFails ==
    (summary.suiteStatus # "none" /\ summary.totalTests > 0
        /\ summary.passCount < summary.requiredPasses)
        => summary.suiteStatus = "FAILED"

(***************************************************************************)
(* Properties of the stored record.                                        *)
(***************************************************************************)
\* the rank ranges with both ends, as the documentation lists them
RankTable ==
    << [from |-> 1, to |-> 5, label |-> <<"Top 1-5">>],
       [from |-> 6, to |-> 10, label |-> <<"Top 6-10">>],
       [from |-> 11, to |-> 20, label |-> <<"Top 11-20">>],
       [from |-> 21, to |-> 30, label |-> <<"Top 21-30">>],
       [from |-> 31, to |-> 50, label |-> <<"Top 31-50">>] >>

\* C10: the rank range of a stored record is decided by the position alone: absent
\* gives "Not Found", a position inside one of the five ranges gives that range,
\* a position above 50 gives "Below Top 50 (Position p)"; and the record's
\* result_position is absent exactly when its rank range is "Not Found".
RankBucketTotal ==
    rankOut # <<>> =>
        LET rec == rankOut[1]
            p == rankIn.position
        IN  /\ p = NotFoundPosition => rec.result_rank_range = <<"Not Found">>
            /\ \A r \in 1..Len(RankTable) :
                  (RankTable[r].from <= p /\ p <= RankTable[r].to)
                      => rec.result_rank_range = RankTable[r].label
            /\ p > 50 => rec.result_rank_range =
                            <<"Below Top 50 (Position ">> \o NumberToText(p) \o <<")">>
            /\ p > 0 => rec.result_position = Num(p)
            /\ rec.result_position = Undefined <=> rec.result_rank_range = <<"Not Found">>

\* C10 witness: a record stored for position 51, the first below the top 50
RankBucketTotalWitness ==
    /\ rankOut # <<>>
    /\ rankIn.position = 51
    /\ rankOut[1].result_rank_range = <<"Below Top 50 (Position ", "5", "1", ")">>

NumberOf(row, f) == IF f \in DOMAIN row THEN row[f] ELSE Undefined
TextOf(row, f) == IF f \in DOMAIN row THEN row[f] ELSE <<>>

\* the two rows have the same status, numbers, rank range and error message
SameOutcome(new, old) ==
    /\ StatusOf(new) = StatusOf(old)
    /\ \A f \in {"found_count", "total_count", "result_position"} :
          NumberOf(new, f) = NumberOf(old, f)
    /\ \A f \in {"result_rank_range", "error_message"} : TextOf(new, f) = TextOf(old, f)

\* the rows carry the catalog's query, as the records of this catalog's tests do
RowsOfCatalog(rows) ==
    \A k \in 1..Len(rows) :
        "aitehinmei" \in DOMAIN rows[k] /\ rows[k].aitehinmei = TestCase(k - 1).aitehinmei

\* C12: when the export one run wrote is the previous export of the next run, every
\* index the store has no record for gets a row with the status, found_count,
\* total_count, result_position, result_rank_range and error_message of the row the
\* previous run wrote (a 0 stays 0, an absent number stays absent); and with an empty
\* store the export written is the previous export again.
ExportRoundTrip ==
    [][ (phase = "running" /\ phase' = "reported" /\ run > 1) =>
            (/\ \A i \in Indices(numTests) :
                    StoreRecordsOf(mergeInput'.store, i) = {}
                        => SameOutcome(testResults'[i + 1], testResults[i + 1])
             /\ (mergeInput'.store = <<>> /\ RowsOfCatalog(testResults))
                    => resultsCsv' = resultsCsv) ]_vars

\* C12 witness: a second run with nothing in the store has reproduced an export
\* holding a row with found_count 0 and no position, a row with a position and a
\* NOT_RUN row
ExportRoundTripWitness ==
    /\ phase = "reported"
    /\ run = 2
    /\ mergeInput.store = <<>>
    /\ resultsCsv = CsvFile(mergeInput.previous)
    /\ \E k \in 1..Len(testResults) :
          /\ NumberOf(testResults[k], "found_count") = Num(0)
          /\ NumberOf(testResults[k], "result_position") = Undefined
          /\ TextOf(testResults[k], "error_message") # <<>>
    /\ \E k \in 1..Len(testResults) :
          NumberOf(testResults[k], "result_position") # Undefined

(***************************************************************************)
(* Properties of the reporter on missing or damaged inputs.                *)
(***************************************************************************)
\* onEnd has written the export and the document for the whole catalog
ReportProduced ==
    /\ phase = "reported"
    /\ resultsCsv.exists /\ resultsCsv.readable
    /\ Len(resultsCsv.rows) = numTests
    /\ document.written
    /\ Len(document.rows) = numTests

\* C13: when the previous export is missing, or reading it throws, every index the
\* store has no record for gets the NOT_RUN row with no derived field, and onEnd
\* writes the export and the document.
MissingExportFirstRun ==
    (/\ phase # "running"
     /\ mergeInput.export \in {"missing", "unreadable"}
     /\ mergeInput.kind # "nonarray") =>
        /\ ReportProduced
        /\ \A i \in Indices(numTests) :
              StoreRecordsOf(mergeInput.store, i) = {} => RowIsDefault(testResults[i + 1])

\* C13 witness: a report produced without a previous export, one row a default and
\* one from the store
MissingExportFirstRunWitness ==
    /\ phase = "reported"
    /\ mergeInput.export = "missing"
    /\ \E i, j \in Indices(numTests) :
          /\ StoreRecordsOf(mergeInput.store, i) = {}
          /\ testResults[i + 1].status = "NOT_RUN"
          /\ StoreRecordsOf(mergeInput.store, j) # {}

(***************************************************************************)
(* Properties of a test that fails before it saves.                        *)
(***************************************************************************)
\* index i was executed in this run and no execution of it reached saveTestResult
ThrewBeforeSave(i) == exec[i].count > 0 /\ call[i] = "none"

CorruptStoreTreatedEmpty ==
    (/\ phase # "running"
     /\ mergeInput.kind \in {"corrupt", "nonarray"}) =>
        /\ ReportProduced
        /\ summary.totalTests = numTests
        /\ mergeInput.store = <<>>
        /\ \A i \in Indices(numTests) :
              RowFallsThrough(testResults[i + 1], mergeInput.previous, i)

(***************************************************************************)
(* Properties of the two artifacts.                                        *)
(***************************************************************************)
\* C19: the export and the document are rendered from the same merged rows: they
\* have the same rows in the same order, and the screenshot column of every row
\* of the export holds the screenshot references the document shows for that
\* row, joined by '|'.
ExportCarriesScreenshotRefs ==
    (phase = "reported" /\ document.written) =>
        /\ Len(resultsCsv.rows) = Len(document.rows)
        /\ \A k \in 1..Len(document.rows) :
              /\ resultsCsv.rows[k].test_number = NumberToText(document.rows[k].test_number)
              /\ resultsCsv.rows[k].status = document.rows[k].status
              /\ resultsCsv.rows[k].screenshot_path = document.rows[k].screenshot_path

\* C20: the export and the document are written by onEnd alone, in the one step that
\* ends the run, taken when every worker has finished; no step of a worker changes
\* either of them, and once onEnd has read the shared file no saveTestResult
\* commits to it and neither artifact is written again.
ArtifactsWrittenOnceAtEnd ==
    [][ /\ (resultsCsv' # resultsCsv \/ document' # document \/ phase' # phase) =>
              (/\ phase = "running"
               /\ phase' # "running"
               /\ \A w \in Workers : pc[w] = "idle" /\ pc'[w] = "idle")
        /\ (phase # "running") =>
              (/\ commits' = commits
               /\ sharedFile' = sharedFile
               /\ resultsCsv' = resultsCsv
               /\ document' = document) ]_vars

\* C20 witness: the report of a run in which a test saved its result, both artifacts
\* written from the records the workers left
ArtifactsWrittenOnceAtEndWitness ==
    /\ phase = "reported"
    /\ resultsCsv.exists
    /\ document.written
    /\ mergeInput.store # <<>>
    /\ \E i \in Indices(numTests) : commits[i] > 0

\* a merged row that lacks its status or its text field
BadRow(row) == "status" \notin DOMAIN row \/ "aitehinmei" \notin DOMAIN row

\* C15: onEnd completes whatever the merged rows are, also when one of them lacks
\* its status or a text field: the export and the document are both written, with
\* one row per catalog row, and the bad row is in the document like the others.
RenderSurvivesBadRow ==
    (phase # "running") =>
        /\ phase = "reported"
        /\ resultsCsv.exists /\ Len(resultsCsv.rows) = numTests
        /\ document.written /\ Len(document.rows) = numTests
        /\ \A k \in 1..numTests :
              BadRow(testResults[k]) => document.rows[k].test_number = k

(***************************************************************************)
(* Properties of the step screenshots.                                     *)
(***************************************************************************)
\* the files the last execution of test i captured
CapturedByLast(i) ==
    {[id |-> TestId(i + 1), step |-> k, exec |-> exec[i].count] : k \in 1..exec[i].steps}

\* the files the report shows for test i
AttributedTo(i) ==
    LET shots == DeployRow([test_number |-> i + 1], screenshotDir).step_screenshots
    IN  {shots[k] : k \in 1..Len(shots)}

\* C17: once an execution of test i has reached the test body, the screenshots the
\* report attributes to i are exactly the ones that execution captured: none left
\* by an earlier execution of i, none of another test, none missing.
ScreenshotsReplacedOnRerun ==
    \A i \in ShotIndices :
        (exec[i].count > 0 /\ exec[i].body) => AttributedTo(i) = CapturedByLast(i)

(***************************************************************************)
(* The end-to-end example.                                                 *)
(***************************************************************************)
\* the example's run: tests 0 and 2 saved, PASS and FAIL
ExampleRun == [i \in 0..2 |-> IF i = 0 THEN "PASS" ELSE IF i = 1 THEN "none" ELSE "FAIL"]

\* the example's previous export: a PASS row for index 1 alone
ExamplePrevious == [i \in 0..2 |-> IF i = 1 THEN "PASS" ELSE "none"]

\* C18: with a catalog of 3 rows, store records for index 0 (PASS) and index 2
\* (FAIL), a previous export holding index 1 as PASS and the threshold set to 60,
\* the merged rows are PASS, PASS (taken from the previous export), FAIL, and the
\* summary has passCount 2, failCount 1, notRunCount 0, passRate 66.7 and
\* suiteStatus PASSED.
ExampleOutcome ==
    (/\ phase = "reported"
     /\ numTests = 3
     /\ configThreshold = 60
     /\ mergeInput.store = ScenarioStore(ExampleRun)
     /\ mergeInput.previous = ScenarioExport(ExamplePrevious)) =>
        /\ [k \in 1..3 |-> testResults[k].status] = <<"PASS", "PASS", "FAIL">>
        /\ RowEqualsRecord(testResults[1], mergeInput.store[1])
        /\ RowTakesPrevious(testResults[2], mergeInput.previous[1])
        /\ RowEqualsRecord(testResults[3], mergeInput.store[2])
        /\ summary.passCount = 2
        /\ summary.failCount = 1
        /\ summary.notRunCount = 0
        /\ summary.passRate = 667
        /\ summary.suiteStatus = "PASSED"

\* the example without its suite status
ExampleRowsAndCounts ==
    (/\ phase = "reported"
     /\ numTests = 3
     /\ mergeInput.store = ScenarioStore(ExampleRun)
     /\ mergeInput.previous = ScenarioExport(ExamplePrevious)) =>
        /\ [k \in 1..3 |-> testResults[k].status] = <<"PASS", "PASS", "FAIL">>
        /\ RowTakesPrevious(testResults[2], mergeInput.previous[1])
        /\ summary.passCount = 2
        /\ summary.failCount = 1
        /\ summary.notRunCount = 0
        /\ summary.passRate = 667
        /\ summary.suiteStatus = "FAILED"

(***************************************************************************)
(* Properties of the shared file under saveTestResult.                     *)
(***************************************************************************)
\* the records of a snapshot that are not of index i, in their order
OthersOf(recs, i) == SelectSeq(recs, LAMBDA r : r._testIndex # i)

\* C21: a saveTestResult(index, result) that commits while no other writer is at
\* work is an upsert: the new snapshot has exactly one record of the index, the
\* result tagged with the index, in the place of the old record of the index or
\* else at the end; the records of the other indices are the same, in the same
\* order; and what the reporter loads from the file is this snapshot.
SubmitIsUpsert ==
    [][ (pc[Solo] = "rename" /\ commits' # commits) =>
          LET i == task[Solo].index
              rec == WithIndex(task[Solo].result, i)
              old == LoadShared(sharedFile)
              new == LoadShared(sharedFile')
              at == FindIndex(old, i)
          IN  /\ sharedFile'.kind = "array"
              /\ Cardinality(StoreRecordsOf(new, i)) = 1
              /\ new[FindIndex(new, i)] = rec
              /\ OthersOf(new, i) = OthersOf(old, i)
              /\ (IF at > 0
                  THEN Len(new) = Len(old) /\ FindIndex(new, i) = at
                  ELSE new = Append(old, rec)) ]_vars

\* C21 witness: a commit has replaced the old record of its index in place, a record
\* of another index before it
SubmitIsUpsertWitness ==
    /\ phase = "running"
    /\ sharedFile.kind = "array"
    /\ Len(sharedFile.recs) = 2
    /\ \E i \in Indices(numTests) :
          /\ commits[i] = 1
          /\ sharedFile.recs[2] \in submitted[i]
          /\ sharedFile.recs[1]._testIndex # i

(***************************************************************************)
(* Properties of the verdict.                                              *)
(***************************************************************************)
\* the record saved has status PASS or FAIL, counts within 0..NumFields, PASS exactly
\* when the counts agree, and the counts are those of the fields in scored
VerdictOver(scored) ==
    rankOut # <<>> =>
        /\ Len(rankOut) = 1
        /\ LET rec == rankOut[1]
               foundCount == rec.found_count.v
               totalCount == rec.total_count.v
           IN  /\ rec.status \in {"PASS", "FAIL"}
               /\ 0 <= foundCount /\ foundCount <= totalCount /\ totalCount <= NumFields
               /\ (rec.status = "PASS") <=> (foundCount = totalCount)
               /\ totalCount = Cardinality(scored)
               /\ foundCount = Cardinality({k \in scored : rankIn.values[k] \in rankIn.text})
               /\ exec[0].failed <=> (rec.status = "FAIL")

CreateKeepsCommitted ==
    [][ (\E p \in Processes : pc[p] = "create" /\ pc'[p] # "create") =>
            /\ LoadShared(sharedFile) = <<>>
            /\ \A i \in Indices(numTests) : commits[i] = 0 ]_vars

\* C25 witness: a new worker process is about to load the module while the file the
\* runner created holds a committed record and the other worker is in a submit
CreateKeepsCommittedWitness ==
    /\ phase = "running"
    /\ \E w, v \in Workers :
          /\ pc[w] = "unloaded"
          /\ pc[v] = "rename"
    /\ \E i \in Indices(numTests) :
          /\ commits[i] = 1
          /\ StoreRecordsOf(LoadShared(sharedFile), i) # {}
          /\ sharedFile.recs[1] \in submitted[i]

\* C23: no reader finds a partly written snapshot.  While the run lasts the shared
\* file is an array (the empty one of the module load, or a snapshot), or still the
\* unreadable file found at the start, nothing committed yet; and the file changes
\* only by the rename of one attempt's temp file, which holds the complete array
\* that attempt built, each worker having a temp file of its own.
SnapshotsAtomic ==
    /\ [](phase = "running" =>
            \/ sharedFile.kind = "array"
            \/ sharedFile.kind = "corrupt" /\ \A i \in Indices(numTests) : commits[i] = 0)
    /\ [][ (sharedFile' # sharedFile /\ phase' = "running") =>
              \E w \in Workers :
                 /\ pc[w] = "rename" /\ pc'[w] = "idle"
                 /\ tempFile[w] = allResults[w]
                 /\ sharedFile' = ArrayFile(allResults[w])
                 /\ \A v \in Workers \ {w} : tempFile'[v] = tempFile[v] ]_vars

\* C23 witness: two attempts have written their temp files, with different
\* snapshots, and neither is published yet
SnapshotsAtomicWitness ==
    /\ phase = "running"
    /\ sharedFile = ArrayFile(<<>>)
    /\ \A w \in Workers : pc[w] = "rename" /\ tempFile[w] # <<>>
    /\ \E w, v \in Workers : tempFile[w] # tempFile[v]

\* no two records of the array share their _testIndex
OnePerIndex(recs) ==
    \A k, j \in 1..Len(recs) : recs[k]._testIndex = recs[j]._testIndex => k = j

\* C24: under any interleaving of the workers' saveTestResult calls the shared file
\* holds at most one record per index, the file found at the start holding at most
\* one per index; so does every snapshot a worker has built or written.
OneRecordPerIndex ==
    /\ OnePerIndex(sharedFile.recs)
    /\ \A w \in Workers : OnePerIndex(allResults[w]) /\ OnePerIndex(tempFile[w])

\* C24 witness: the saves of two indices have both committed and the file holds one
\* record for each of them
OneRecordPerIndexWitness ==
    /\ phase = "running"
    /\ Len(sharedFile.recs) = 2
    /\ \A i \in Indices(numTests) :
          /\ commits[i] = 1
          /\ \E k \in 1..2 : sharedFile.recs[k] \in submitted[i]
    /\ mergeInput = NoMergeInput

(***************************************************************************)
(* Properties of the store over runs.                                      *)
(***************************************************************************)
\* C26: every record onEnd takes as a current-run outcome was saved by a test of the
\* run that onEnd ends: over any sequence of runs, also after a run that was
\* stopped before its onEnd, the store onEnd loads holds no record of an earlier run.
CurrentRunRecordsOnly ==
    phase = "reported" =>
        \A k \in 1..Len(mergeInput.store) :
            LET i == mergeInput.store[k]._testIndex
            IN  /\ i \in Indices(numTests)
                /\ commits[i] > 0
                /\ mergeInput.store[k] \in submitted[i]

(***************************************************************************)
(* Properties of the screenshots across indices.                           *)
(***************************************************************************)
\* the files in dir that were captured for tests other than test i
FilesOfOthers(dir, i) == {f \in dir : f.id # TestId(i + 1)}

\* C27: screenshots are handled per index, whatever the size of the catalog: the
\* screenshots the report attaches to row i were all captured for test i, and an
\* execution of test i, which deletes the old screenshots of i, leaves the
\* screenshots of every other test as they are.
ScreenshotsPerIndex ==
    /\ [](\A i \in ShotIndices : \A f \in AttributedTo(i) : f.id = TestId(i + 1))
    /\ [][ \A i \in ShotIndices :
              exec'[i] # exec[i] =>
                  FilesOfOthers(screenshotDir', i) = FilesOfOthers(screenshotDir, i) ]_vars

\* the purge of test i alone: an execution of test i leaves the screenshots of every
\* other test as they are
PurgeKeepsOthers ==
    [][ \A i \in ShotIndices :
           exec'[i] # exec[i] =>
               FilesOfOthers(screenshotDir', i) = FilesOfOthers(screenshotDir, i) ]_vars

(***************************************************************************)
(* Properties of the counts of the summary.                                *)
(***************************************************************************)
\* C28: for every merged matrix the counts of the summary partition the rows:
\* passCount + failCount + notRunCount = totalTests = the number of catalog
\* entries, whatever statuses the store records and the previous export carry
CountsPartitionRows ==
    phase = "reported" =>
        /\ summary.totalTests = numTests
        /\ summary.passCount + summary.failCount + summary.notRunCount
              = summary.totalTests

(***************************************************************************)
(* Properties of the match-result section of the document.                 *)
(***************************************************************************)
\* C29: in the document a row's match-result section is rendered as success
\* ("All fields matched successfully") only if the row's status is PASS; a row
\* with status NOT_RUN or FAIL, a default NOT_RUN row without found_count and
\* total_count included, is never rendered as a full match
SuccessSectionOnlyForPass ==
    (phase = "reported" /\ document.written /\ document.run = run) =>
        \A k \in 1..Len(document.rows) :
            document.matchResult[k] = "success" => document.rows[k].status = "PASS"

(***************************************************************************)
(* Properties of a row's status and screenshots together.                  *)
(***************************************************************************)
\* row k of the document took its status from the previous export (tier b)
ResolvedFromPrevious(k) ==
    /\ FindIndex(mergeInput.store, k - 1) = 0
    /\ HasPrevious(mergeInput.previous, k)

\* the screenshots an execution of this run captured: the directory is empty when
\* the run starts, so every file in it
CapturedInThisRun == screenshotDir

\* C30: for every merged row the status shown and the screenshots shown come from
\* the same execution of that index: if the row's status was resolved from the
\* previous export, no screenshot attached to it was captured by an execution of
\* the current run
StatusAndShotsSameExecution ==
    (phase = "reported" /\ document.written /\ document.run = run) =>
        \A k \in 1..Len(document.rows) :
            ResolvedFromPrevious(k) =>
                \A n \in 1..Len(document.rows[k].step_screenshots) :
                    document.rows[k].step_screenshots[n] \notin CapturedInThisRun

=========================================================================
